---- MODULE Spec2Model ----
(***************************************************************************)
(* Model of the clipboard change-watching subsystem of node-clipboard-rs   *)
(* (src/src/lib.rs): the ClipboardListener lifecycle controller, the       *)
(* Generic (clipboard_rs) and Wayland watcher threads, the threadsafe      *)
(* callback bridge, the format aggregator get_clipboard_data and the       *)
(* Wayland message translation wayland_context_to_clipboard_data.          *)
(* The model is of the target_os = "linux" build, where both backends      *)
(* exist.                                                                  *)
(***************************************************************************)
EXTENDS Integers, Sequences, FiniteSets, TLC

(* ---------------------------------------------------------------------- *)
(* Bounds                                                                  *)
(* ---------------------------------------------------------------------- *)
\* number of backend threads one Listener spawns (number of watch() calls)
MaxThreads == 2
\* number of clipboard changes the OS reports
MaxChanges == 2
\* number of calls the callback bridge rejects
MaxRejects == 1
\* length of a Wayland message payload or of a raw image payload, in bytes
MaxLen == 2
\* length of a base64 string handed to an image setter, in characters
MaxB64Len == 4

(* ---------------------------------------------------------------------- *)
(* Option<T>: None is the empty sequence, Some(v) the one-element sequence *)
(* ---------------------------------------------------------------------- *)
None == << >>
Some(v) == << v >>
IsSome(o) == o # None

VARIABLES
  is_wayland,      \* ClipboardListener.is_wayland
  listener_type,   \* ClipboardListener.listener_type : Option<ListenerType>
  dropped,         \* the Listener value has been dropped
  callerPc,        \* position of the calling thread: "ready" | "recv"
  lastOp,          \* last Listener operation: "new" | "watch" | "stop" | "drop"
  lastResult,      \* its result: "Ok" | "Err" | "pending"
  wasActive,       \* a handle was stored when that operation was called
  threads,         \* the backend threads spawned so far, in spawn order
  changes,         \* number of clipboard changes reported by the OS so far
  ctx,             \* aggregator input: the clipboard behind a ClipboardContext
  msg,             \* translation input: a ClipBoardListenMessage
  snap,            \* Option<ClipboardData> produced last
  fetched,         \* formats whose get_* primitive the last aggregation called
  outcome,         \* result of the last one-shot operation
  env,             \* the process environment
  clip,            \* the system clipboard the setters and queries work on
  op,              \* the one-shot clipboard operation called, if any
  arg,             \* its argument
  consulted,       \* the primitives it called on its ClipboardContext
  ret              \* the value it returned, if it returned Ok

lvars == << is_wayland, listener_type, dropped, callerPc, lastOp, lastResult,
            wasActive, threads, changes >>
avars == << ctx, msg, snap, fetched, outcome >>
ovars == << clip, op, arg, consulted, ret >>
vars == << is_wayland, listener_type, dropped, callerPc, lastOp, lastResult,
           wasActive, threads, changes, ctx, msg, snap, fetched, outcome,
           env, clip, op, arg, consulted, ret >>

(* ---------------------------------------------------------------------- *)
(* Environment detection (the Linux build; on other targets                *)
(* is_wayland_environment is the constant false)                           *)
(* ---------------------------------------------------------------------- *)
\* Values of WAYLAND_DISPLAY and XDG_SESSION_TYPE: unset, or set to a string
DisplayValues == {None, Some(""), Some("wayland-0")}
SessionValues == {None, Some(""), Some("wayland"), Some("Wayland"), Some("x11")}
Envs == [WAYLAND_DISPLAY : DisplayValues, XDG_SESSION_TYPE : SessionValues]

\* the environment of an X11 session and that of a Wayland session
SessionEnvs ==
  {[WAYLAND_DISPLAY |-> None, XDG_SESSION_TYPE |-> Some("x11")],
   [WAYLAND_DISPLAY |-> Some("wayland-0"), XDG_SESSION_TYPE |-> Some("wayland")]}

\* std::env::var(name): Ok(value) when the variable is set, Err otherwise
env_var(e, name) == e[name]

\* WAYLAND_DISPLAY is looked at first, and only for being set; then
\* XDG_SESSION_TYPE is compared with "wayland"
is_wayland_environment(e) ==
  \/ IsSome(env_var(e, "WAYLAND_DISPLAY"))
  \/ (IsSome(env_var(e, "XDG_SESSION_TYPE"))
        /\ env_var(e, "XDG_SESSION_TYPE")[1] = "wayland")

(* ---------------------------------------------------------------------- *)
(* ListenerType and the backend threads                                    *)
(* ---------------------------------------------------------------------- *)
\* enum ListenerType { ClipboardRs(WatcherShutdown), Wayland(Sender<()>) }:
\* the payload is the send side of thread tid's stop channel
ListenerType(kind, tid) == [kind |-> kind, tid |-> tid]

\* A freshly spawned backend thread.
\*   pc       Wayland: "init" "poll" "deliver"
\*            ClipboardRs: "ctx" "watcher" "send" "start" "loop"
\*            both: "failed" (returned from a setup error), "exited"
\*            (returned after its loop)
\*   stop_rx  unit signals pending on the stop channel
\*   sent     the shutdown token was sent on the handoff channel
\*   inbox    the clipboard changes the OS has queued for the thread
\*   cur      the message the loop body is processing
\*   calls    the calls the thread has made on its threadsafe function
NewThread(kind) ==
  [kind |-> kind,
   pc |-> IF kind = "Wayland" THEN "init" ELSE "ctx",
   stop_rx |-> 0, sent |-> FALSE,
   inbox |-> << >>, cur |-> None, calls |-> << >>]

Tids == 1 .. Len(threads)
Live(th) == th.pc \notin {"failed", "exited"}
\* The OS queues a clipboard change for the thread: a Wayland thread whose
\* stream is open, a Generic thread inside start_watch(). The watcher
\* collaborator runs until its shutdown token is invoked: it takes up no
\* change reported after that, while one queued before may still be
\* dispatched.
Subscribed(th) ==
  IF th.kind = "Wayland" THEN th.pc \in {"poll", "deliver"}
  ELSE th.pc = "loop" /\ th.stop_rx = 0

is_watching == IsSome(listener_type)

get_listener_type == IF is_wayland THEN "wayland" ELSE "generic"

\* stop(): the match on the taken handle. Both arms put one unit on the
\* thread's stop channel (shutdown.stop() / stop_tx.send(())); a send to a
\* channel whose receiver is gone is ignored.
SendStop(ths, lt) ==
  [ths EXCEPT ![lt.tid] = IF Live(@) THEN [@ EXCEPT !.stop_rx = @ + 1] ELSE @]

\* mutant: the stored handle is cleared without asking its backend to stop
StopBackend_NoSignal(ths, lto) == ths

\* mutant: with no handle stored, the thread spawned last is signalled
StopBackend_Always(ths, lto) ==
  IF IsSome(lto) THEN SendStop(ths, lto[1])
  ELSE IF ths # << >> THEN SendStop(ths, [tid |-> Len(ths)]) ELSE ths

\* stop(): if let Some(listener_type) = self.listener_type.take() { ... }
StopBackend(ths, lto) ==
  IF IsSome(lto) THEN SendStop(ths, lto[1]) ELSE ths

\* A thread that has returned: its receiver and its stream are released.
Returned(th, how) ==
  [th EXCEPT !.pc = how, !.stop_rx = 0, !.inbox = << >>, !.cur = None]

\* mutant: the stop check never sees the signal
try_recv_never(th) == FALSE

\* stop_rx.try_recv().is_ok(): a unit is pending. Empty and Disconnected are
\* both Err.
try_recv_is_ok(th) == th.stop_rx > 0

(* ---------------------------------------------------------------------- *)
(* Listener operations                                                     *)
(* ---------------------------------------------------------------------- *)
\* mutant: a send to a thread that is gone is reported to the caller
Stop_send_checked ==
  /\ callerPc = "ready" /\ ~dropped
  /\ threads' = StopBackend(threads, listener_type)
  /\ listener_type' = None
  /\ lastOp' = "stop"
  /\ lastResult' = IF is_watching /\ ~Live(threads[listener_type[1].tid])
                   THEN "Err" ELSE "Ok"
  /\ wasActive' = is_watching
  /\ UNCHANGED << is_wayland, dropped, callerPc, changes >>
  /\ UNCHANGED << avars, ovars, env >>

Stop ==
  /\ callerPc = "ready" /\ ~dropped
  /\ threads' = StopBackend(threads, listener_type)
  /\ listener_type' = None
  /\ lastOp' = "stop" /\ lastResult' = "Ok"
  /\ wasActive' = is_watching
  /\ UNCHANGED << is_wayland, dropped, callerPc, changes >>
  /\ UNCHANGED << avars, ovars, env >>

\* mutant: the caller waits for the thread's initialisation, as the Generic
\* backend does
watch_wayland_waiting(ths) ==
  /\ threads' = Append(ths, NewThread("Wayland"))
  /\ listener_type' = None
  /\ lastResult' = "pending"
  /\ callerPc' = "recv"

\* watch_wayland: spawn, store the handle, return Ok without waiting
watch_wayland(ths) ==
  /\ threads' = Append(ths, NewThread("Wayland"))
  /\ listener_type' = Some(ListenerType("Wayland", Len(ths) + 1))
  /\ lastResult' = "Ok"
  /\ callerPc' = "ready"

\* watch_generic up to shutdown_rx.recv(): spawn, then block on the handoff
watch_generic(ths) ==
  /\ threads' = Append(ths, NewThread("ClipboardRs"))
  /\ listener_type' = None
  /\ lastResult' = "pending"
  /\ callerPc' = "recv"

\* mutant: watch() asks the environment again
UseWayland_requeried == is_wayland_environment(env)

\* if self.is_wayland { .. } else { .. }: the stored boolean decides
UseWayland == is_wayland

\* mutant: the threadsafe function is built before the old backend is
\* stopped, so a failure leaves the Listener as it was
Watch_atomic(tsfnOk) ==
  /\ callerPc = "ready" /\ ~dropped
  /\ (tsfnOk => Len(threads) < MaxThreads)
  /\ lastOp' = "watch"
  /\ wasActive' = is_watching
  /\ IF ~tsfnOk
     THEN /\ lastResult' = "Err"
          /\ UNCHANGED << threads, listener_type, callerPc >>
     ELSE LET ths == StopBackend(threads, listener_type) IN
            IF UseWayland THEN watch_wayland(ths) ELSE watch_generic(ths)
  /\ UNCHANGED << is_wayland, dropped, changes >>
  /\ UNCHANGED << avars, ovars, env >>

Watch(tsfnOk) ==
  /\ callerPc = "ready" /\ ~dropped
  /\ (tsfnOk => Len(threads) < MaxThreads)
  /\ lastOp' = "watch"
  /\ wasActive' = is_watching
  /\ LET ths == StopBackend(threads, listener_type) IN
       IF ~tsfnOk
       THEN /\ threads' = ths
            /\ listener_type' = None
            /\ lastResult' = "Err"
            /\ callerPc' = "ready"
       ELSE IF UseWayland THEN watch_wayland(ths) ELSE watch_generic(ths)
  /\ UNCHANGED << is_wayland, dropped, changes >>
  /\ UNCHANGED << avars, ovars, env >>

\* mutant: recv() does not notice that the sender is gone
RecvReady_no_disconnect(th) == th.sent

\* shutdown_rx.recv(): Ok(token) once the thread has sent it, Err once the
\* thread has dropped shutdown_tx without sending; blocks otherwise.
RecvReady(th) == th.sent \/ ~Live(th)

\* if let Ok(shutdown) = shutdown_rx.recv() { store }
RecvStore(th, tid) ==
  IF th.sent THEN Some(ListenerType("ClipboardRs", tid)) ELSE None

WatchGenericRecv ==
  /\ callerPc = "recv"
  /\ RecvReady(threads[Len(threads)])
  /\ listener_type' = RecvStore(threads[Len(threads)], Len(threads))
  /\ lastResult' = "Ok"
  /\ callerPc' = "ready"
  /\ UNCHANGED << is_wayland, dropped, lastOp, wasActive, threads, changes >>
  /\ UNCHANGED << avars, ovars, env >>

\* Dropping the Listener drops the stored handle. Dropping a Sender<()>
\* sends nothing; dropping a WatcherShutdown invokes it (stop(self) consumes
\* the token the same way).
DropHandle(ths, lto) ==
  IF ~IsSome(lto) THEN ths
  ELSE IF lto[1].kind = "Wayland" THEN ths
       ELSE SendStop(ths, lto[1])

Drop ==
  /\ callerPc = "ready" /\ ~dropped
  /\ dropped' = TRUE
  /\ threads' = DropHandle(threads, listener_type)
  /\ listener_type' = None
  /\ lastOp' = "drop" /\ lastResult' = "Ok"
  /\ wasActive' = is_watching
  /\ UNCHANGED << is_wayland, callerPc, changes >>
  /\ UNCHANGED << avars, ovars, env >>

(* ---------------------------------------------------------------------- *)
(* The callback bridge                                                     *)
(* ---------------------------------------------------------------------- *)
\* tsfn.call(data, NonBlocking): the call is recorded with whether the queue
\* accepted it; the Result is discarded by the caller (let _ = ...). Every
\* watch() builds its own threadsafe function, so the calls are kept with
\* the thread that owns it.
\*   ev       the clipboard change the snapshot is for
\*   late     the thread had been asked to stop when the change occurred
BridgeCall(item, accepted) ==
  [ev |-> item.ev, late |-> item.late, ok |-> accepted]

\* number of calls the queue has rejected so far
RECURSIVE RejectedIn(_)
RejectedIn(cs) ==
  IF cs = << >> THEN 0
  ELSE (IF Head(cs).ok THEN 0 ELSE 1) + RejectedIn(Tail(cs))

RECURSIVE RejectedUpTo(_)
RejectedUpTo(n) ==
  IF n = 0 THEN 0 ELSE RejectedIn(threads[n].calls) + RejectedUpTo(n - 1)

MayReject == RejectedUpTo(Len(threads)) < MaxRejects

(* ---------------------------------------------------------------------- *)
(* The Wayland backend thread (closure of watch_wayland)                   *)
(* ---------------------------------------------------------------------- *)
\* WlClipboardPasteStream::init: Err => return
WlInit(t, ok) ==
  /\ threads[t].kind = "Wayland" /\ threads[t].pc = "init"
  /\ threads' = [threads EXCEPT
                   ![t] = IF ok THEN [@ EXCEPT !.pc = "poll"]
                          ELSE Returned(@, "failed")]
  /\ UNCHANGED << is_wayland, listener_type, dropped, callerPc, lastOp,
                  lastResult, wasActive, changes >>
  /\ UNCHANGED << avars, ovars, env >>

\* kinds of paste-stream item: Ok(Some(message)), Ok(None), Err(_)
ItemKinds == {"msg", "none", "err"}

\* mutant: an error item ends the loop
WlCheckNext_break_on_error(th, kind) ==
  IF try_recv_is_ok(th) \/ kind = "err"
  THEN Returned(th, "exited")
  ELSE IF kind = "msg"
       THEN [th EXCEPT !.pc = "deliver", !.cur = Some(Head(th.inbox)),
                       !.inbox = Tail(@)]
       ELSE [th EXCEPT !.inbox = Tail(@)]

\* mutant: the stop check comes after the message has been handled
WlCheckNext_check_last(th, kind) ==
  IF kind = "msg"
  THEN [th EXCEPT !.pc = "deliver", !.cur = Some(Head(th.inbox)),
                  !.inbox = Tail(@)]
  ELSE IF try_recv_is_ok(th)
       THEN Returned(th, "exited")
       ELSE [th EXCEPT !.inbox = Tail(@)]

\* mutant: the stream yields the newest queued change first
WlCheckNext_newest_first(th, kind) ==
  IF try_recv_is_ok(th)
  THEN Returned(th, "exited")
  ELSE IF kind = "msg"
       THEN [th EXCEPT !.pc = "deliver",
                       !.cur = Some(th.inbox[Len(th.inbox)]),
                       !.inbox = SubSeq(@, 1, Len(@) - 1)]
       ELSE [th EXCEPT !.inbox = Tail(@)]

\* The loop body up to the call, for the item the stream yields for the
\* change at the head of the queue: the stop check, then
\* if let Ok(Some(message)) = context_result.
WlCheckNext(th, kind) ==
  IF try_recv_is_ok(th)
  THEN Returned(th, "exited")
  ELSE IF kind = "msg"
       THEN [th EXCEPT !.pc = "deliver", !.cur = Some(Head(th.inbox)),
                       !.inbox = Tail(@)]
       ELSE [th EXCEPT !.inbox = Tail(@)]

\* one iteration of for context_result in stream.paste_stream(): the
\* iterator yields an item and the loop body runs up to the call
WlPoll(t, kind) ==
  /\ threads[t].kind = "Wayland" /\ threads[t].pc = "poll"
  /\ threads[t].inbox # << >>
  /\ threads' = [threads EXCEPT ![t] = WlCheckNext(@, kind)]
  /\ UNCHANGED << is_wayland, listener_type, dropped, callerPc, lastOp,
                  lastResult, wasActive, changes >>
  /\ UNCHANGED << avars, ovars, env >>

\* the iterator is exhausted: the for loop and the thread end
WlStreamEnd(t) ==
  /\ threads[t].kind = "Wayland" /\ threads[t].pc = "poll"
  /\ threads[t].inbox = << >>
  /\ threads' = [threads EXCEPT ![t] = Returned(@, "exited")]
  /\ UNCHANGED << is_wayland, listener_type, dropped, callerPc, lastOp,
                  lastResult, wasActive, changes >>
  /\ UNCHANGED << avars, ovars, env >>

\* mutant: a rejected call is made again until the queue accepts it
WlDeliver_retry(t, accepted) ==
  /\ threads[t].kind = "Wayland" /\ threads[t].pc = "deliver"
  /\ (accepted \/ MayReject)
  /\ threads' = [threads EXCEPT
                   ![t].pc = IF accepted THEN "poll" ELSE "deliver",
                   ![t].cur = IF accepted THEN None ELSE @,
                   ![t].calls = Append(@, BridgeCall(threads[t].cur[1],
                                                     accepted))]
  /\ UNCHANGED << is_wayland, listener_type, dropped, callerPc, lastOp,
                  lastResult, wasActive, changes >>
  /\ UNCHANGED << avars, ovars, env >>

\* wayland_context_to_clipboard_data(message);
\* let _ = tsfn.call(.., NonBlocking): the returned status is discarded
WlDeliver(t, accepted) ==
  /\ threads[t].kind = "Wayland" /\ threads[t].pc = "deliver"
  /\ (accepted \/ MayReject)
  /\ threads' = [threads EXCEPT
                   ![t].pc = "poll", ![t].cur = None,
                   ![t].calls = Append(@, BridgeCall(threads[t].cur[1],
                                                     accepted))]
  /\ UNCHANGED << is_wayland, listener_type, dropped, callerPc, lastOp,
                  lastResult, wasActive, changes >>
  /\ UNCHANGED << avars, ovars, env >>

(* ---------------------------------------------------------------------- *)
(* The Generic backend thread (closure of watch_generic)                   *)
(* ---------------------------------------------------------------------- *)
\* ClipboardContext::new(): Err => return
GenCtx(t, ok) ==
  /\ threads[t].kind = "ClipboardRs" /\ threads[t].pc = "ctx"
  /\ threads' = [threads EXCEPT
                   ![t] = IF ok THEN [@ EXCEPT !.pc = "watcher"]
                          ELSE Returned(@, "failed")]
  /\ UNCHANGED << is_wayland, listener_type, dropped, callerPc, lastOp,
                  lastResult, wasActive, changes >>
  /\ UNCHANGED << avars, ovars, env >>

\* ClipboardWatcherContext::new(): Err => return
GenWatcher(t, ok) ==
  /\ threads[t].kind = "ClipboardRs" /\ threads[t].pc = "watcher"
  /\ threads' = [threads EXCEPT
                   ![t] = IF ok THEN [@ EXCEPT !.pc = "send"]
                          ELSE Returned(@, "failed")]
  /\ UNCHANGED << is_wayland, listener_type, dropped, callerPc, lastOp,
                  lastResult, wasActive, changes >>
  /\ UNCHANGED << avars, ovars, env >>

\* add_handler(..).get_shutdown_channel(); shutdown_tx.send(shutdown)
GenSend(t) ==
  /\ threads[t].kind = "ClipboardRs" /\ threads[t].pc = "send"
  /\ threads' = [threads EXCEPT ![t].pc = "start", ![t].sent = TRUE]
  /\ UNCHANGED << is_wayland, listener_type, dropped, callerPc, lastOp,
                  lastResult, wasActive, changes >>
  /\ UNCHANGED << avars, ovars, env >>

\* mutant: the watcher starts with a clean slate, forgetting a shutdown
\* requested before it ran
start_watch_unlatched(th) == [th EXCEPT !.pc = "loop", !.stop_rx = 0]

\* watcher.start_watch() is entered. The token signals over a channel, so
\* a shutdown requested before this point is still pending inside.
start_watch(th) == [th EXCEPT !.pc = "loop"]

GenStart(t) ==
  /\ threads[t].kind = "ClipboardRs" /\ threads[t].pc = "start"
  /\ threads' = [threads EXCEPT ![t] = start_watch(@)]
  /\ UNCHANGED << is_wayland, listener_type, dropped, callerPc, lastOp,
                  lastResult, wasActive, changes >>
  /\ UNCHANGED << avars, ovars, env >>

\* start_watch() reports a change: Handler::on_clipboard_change runs
\* get_clipboard_data and tsfn.call(.., NonBlocking). A change queued
\* before a stop request may be dispatched while the request is pending.
GenHandle(t, accepted) ==
  /\ threads[t].kind = "ClipboardRs" /\ threads[t].pc = "loop"
  /\ threads[t].inbox # << >>
  /\ (accepted \/ MayReject)
  /\ threads' = [threads EXCEPT
                   ![t].inbox = Tail(@),
                   ![t].calls = Append(@, BridgeCall(Head(threads[t].inbox),
                                                     accepted))]
  /\ UNCHANGED << is_wayland, listener_type, dropped, callerPc, lastOp,
                  lastResult, wasActive, changes >>
  /\ UNCHANGED << avars, ovars, env >>

\* start_watch() returns once the shutdown token has been invoked
GenExit(t) ==
  /\ threads[t].kind = "ClipboardRs" /\ threads[t].pc = "loop"
  /\ threads[t].stop_rx > 0
  /\ threads' = [threads EXCEPT ![t] = Returned(@, "exited")]
  /\ UNCHANGED << is_wayland, listener_type, dropped, callerPc, lastOp,
                  lastResult, wasActive, changes >>
  /\ UNCHANGED << avars, ovars, env >>

(* ---------------------------------------------------------------------- *)
(* The operating system                                                    *)
(* ---------------------------------------------------------------------- *)
\* One clipboard change: every subscribed thread gets one event for it.
Enqueue(th, ev) ==
  IF Subscribed(th)
  THEN [th EXCEPT !.inbox = Append(@, [ev |-> ev, late |-> th.stop_rx > 0])]
  ELSE th

ClipboardChange ==
  /\ changes < MaxChanges
  /\ \E t \in Tids : Subscribed(threads[t])
  /\ changes' = changes + 1
  /\ threads' = [t \in Tids |-> Enqueue(threads[t], changes + 1)]
  /\ UNCHANGED << is_wayland, listener_type, dropped, callerPc, lastOp,
                  lastResult, wasActive >>
  /\ UNCHANGED << avars, ovars, env >>

\* the steps of backend thread t: the closure of watch_wayland
WlStep(t) ==
  \/ \E ok \in BOOLEAN : WlInit(t, ok)
  \/ \E kind \in ItemKinds : WlPoll(t, kind)
  \/ \E accepted \in BOOLEAN : WlDeliver(t, accepted)

\* the steps of backend thread t: the closure of watch_generic
GenStep(t) ==
  \/ \E ok \in BOOLEAN : GenCtx(t, ok)
  \/ \E ok \in BOOLEAN : GenWatcher(t, ok)
  \/ GenSend(t)
  \/ GenStart(t)
  \/ \E accepted \in BOOLEAN : GenHandle(t, accepted)
  \/ GenExit(t)

ThreadStep(t) == WlStep(t) \/ GenStep(t)

(* ---------------------------------------------------------------------- *)
(* Specification of the Listener and its backends                          *)
(* ---------------------------------------------------------------------- *)
AggIdle ==
  /\ ctx = None /\ msg = None /\ snap = None /\ fetched = {}
  /\ outcome = "none"

\* no one-shot clipboard operation has been called; the clipboard is empty
OpsIdle ==
  /\ clip = [formats |-> {}, image |-> None]
  /\ op = "none" /\ arg = None /\ consulted = {} /\ ret = None

\* the fields of a Listener that new() did not compute from the environment
ListenerNew ==
  /\ listener_type = None
  /\ dropped = FALSE
  /\ callerPc = "ready"
  /\ lastOp = "new" /\ lastResult = "Ok"
  /\ wasActive = FALSE
  /\ threads = << >>
  /\ changes = 0

\* ClipboardListener::new(): idle, is_wayland as detected
Init ==
  /\ env \in SessionEnvs
  /\ is_wayland = is_wayland_environment(env)
  /\ ListenerNew
  /\ AggIdle
  /\ OpsIdle

Next ==
  \/ \E tsfnOk \in BOOLEAN : Watch(tsfnOk)
  \/ WatchGenericRecv
  \/ Stop
  \/ Drop
  \/ \E t \in Tids : ThreadStep(t)
  \/ ClipboardChange
  \/ \E t \in Tids : WlStreamEnd(t)

Spec == Init /\ [][Next]_vars

(* ---------------------------------------------------------------------- *)
(* The format aggregator                                                   *)
(* ---------------------------------------------------------------------- *)
\* mutant: the loop probes html before text
format_checks_html_first == << "html", "text", "rtf", "image", "files" >>

\* let format_checks = [("text", Text), ("rtf", Rtf), ("html", Html),
\*                      ("image", Image), ("files", Files)]
format_checks == << "text", "rtf", "html", "image", "files" >>
FormatNames == {"text", "rtf", "html", "image", "files"}

\* What the collaborator's get_* primitive returns for a format when it
\* succeeds; the image is a RustImageData with its size and its PNG bytes.
Content(f) ==
  CASE f = "text" -> "hello"
    [] f = "rtf" -> "{\\rtf1 hello}"
    [] f = "html" -> "<b>hello</b>"
    [] f = "image" -> [width |-> 2, height |-> 1, png |-> << 137, 80, 78 >>]
    [] f = "files" -> << "/tmp/a", "/tmp/b" >>

\* The clipboard as a ClipboardContext shows it: has[f] is the presence
\* check, get_ok[f] whether the fetch of f returns Ok, png_ok whether
\* to_png() returns Ok.
Contexts ==
  [has : [FormatNames -> BOOLEAN], get_ok : [FormatNames -> BOOLEAN],
   png_ok : BOOLEAN]

\* bytes.len() as u32: a length below 2^31, the only kind representable
\* here, is unchanged by the cast
AsU32(n) == n

\* context.get_text().ok() and the like
Fetch(c, f) == IF c.get_ok[f] THEN Some(Content(f)) ELSE None

\* context.get_image().ok().and_then(|img| img.to_png().ok().map(..))
FetchImage(c) ==
  IF c.get_ok["image"] /\ c.png_ok
  THEN Some([width |-> Content("image").width,
             height |-> Content("image").height,
             size |-> AsU32(Len(Content("image").png)),
             data |-> Content("image").png])
  ELSE None

\* the variables of get_clipboard_data before the loop; calls records the
\* formats whose fetch primitive has been called
EmptyData ==
  [available_formats |-> << >>, text |-> None, rtf |-> None, html |-> None,
   image |-> None, files |-> None, calls |-> {}]

\* mutant: every format is fetched, present or not
Present_always(c, f) == TRUE

\* The presence check that guards one iteration of the loop.
Present(c, f) == c.has[f]

\* mutant: the text is stored without its tag
ProbeFormat_untagged(c, acc, f) ==
  IF Present(c, f)
  THEN LET tagged == [acc EXCEPT !.available_formats = Append(@, f),
                                 !.calls = @ \cup {f}]
       IN CASE f = "text" -> [acc EXCEPT !.text = Fetch(c, f),
                                         !.calls = @ \cup {f}]
            [] f = "rtf" -> [tagged EXCEPT !.rtf = Fetch(c, f)]
            [] f = "html" -> [tagged EXCEPT !.html = Fetch(c, f)]
            [] f = "image" -> [tagged EXCEPT !.image = FetchImage(c)]
            [] f = "files" -> [tagged EXCEPT !.files = Fetch(c, f)]
  ELSE acc

\* One iteration of the loop over format_checks.
ProbeFormat(c, acc, f) ==
  IF Present(c, f)
  THEN LET tagged == [acc EXCEPT !.available_formats = Append(@, f),
                                 !.calls = @ \cup {f}]
       IN CASE f = "text" -> [tagged EXCEPT !.text = Fetch(c, f)]
            [] f = "rtf" -> [tagged EXCEPT !.rtf = Fetch(c, f)]
            [] f = "html" -> [tagged EXCEPT !.html = Fetch(c, f)]
            [] f = "image" -> [tagged EXCEPT !.image = FetchImage(c)]
            [] f = "files" -> [tagged EXCEPT !.files = Fetch(c, f)]
  ELSE acc

RECURSIVE ProbeFrom(_, _, _)
ProbeFrom(c, acc, i) ==
  IF i > Len(format_checks) THEN acc
  ELSE ProbeFrom(c, ProbeFormat(c, acc, format_checks[i]), i + 1)

\* the struct literal ClipboardData { .. } built from the loop's variables
ClipboardData(acc) ==
  [available_formats |-> acc.available_formats, text |-> acc.text,
   rtf |-> acc.rtf, html |-> acc.html, image |-> acc.image,
   files |-> acc.files]

get_clipboard_data(c) == ClipboardData(ProbeFrom(c, EmptyData, 1))

\* the fetch primitives get_clipboard_data calls on c
FetchCalls(c) == ProbeFrom(c, EmptyData, 1).calls

(* ---------------------------------------------------------------------- *)
(* The Wayland translation                                                 *)
(* ---------------------------------------------------------------------- *)
TextMimes == {"text/plain", "text/plain;charset=utf-8", "UTF8_STRING", "STRING"}
ImageMimes == {"image/png", "image/jpeg", "image/gif", "image/bmp"}
\* the MIME types of the match arms, and some that fall to the default arm
MimeTypes ==
  TextMimes \cup {"text/html"} \cup ImageMimes
    \cup {"application/json", "text/rtf", "text/uri-list"}

\* payload bytes: 'A', the two bytes of U+00E9, and 0xFF
Bytes == {65, 195, 169, 255}

RECURSIVE SeqsUpTo(_, _)
SeqsUpTo(S, n) ==
  IF n = 0 THEN {<< >>}
  ELSE LET shorter == SeqsUpTo(S, n - 1)
       IN shorter \cup {Append(q, x) : q \in {r \in shorter : Len(r) = n - 1},
                                      x \in S}

Messages == [mime_type : MimeTypes, context : SeqsUpTo(Bytes, MaxLen)]

\* UTF-8 validity of a byte sequence, for the one- and two-byte forms (the
\* only ones Bytes can spell): 00..7F, or C2..DF followed by 80..BF.
RECURSIVE IsUtf8(_)
IsUtf8(b) ==
  IF b = << >> THEN TRUE
  ELSE IF b[1] < 128 THEN IsUtf8(Tail(b))
  ELSE IF b[1] >= 194 /\ b[1] <= 223
       THEN /\ Len(b) >= 2 /\ b[2] >= 128 /\ b[2] <= 191
            /\ IsUtf8(Tail(Tail(b)))
  ELSE FALSE

\* String::from_utf8(bytes).ok(): the same bytes as a String, if valid
from_utf8(b) == IF IsUtf8(b) THEN Some(b) ELSE None

\* mutant: the size is left unknown, like the dimensions
WaylandImageData_unsized(b) ==
  [width |-> 0, height |-> 0, size |-> 0, data |-> b]

\* the ImageData { .. } of the image arm: the dimensions are not known to
\* the Wayland listener, the data is the payload as it came
WaylandImageData(b) ==
  [width |-> 0, height |-> 0, size |-> AsU32(Len(b)), data |-> b]

\* mutant: an arm for text/rtf that fills the rtf field
wayland_context_to_clipboard_data_rtf(m) ==
  LET base == [available_formats |-> << >>, text |-> None, rtf |-> None,
               html |-> None, image |-> None, files |-> None]
      s == from_utf8(m.context)
  IN IF m.mime_type \in TextMimes
     THEN [base EXCEPT !.available_formats = << "text" >>, !.text = s]
     ELSE IF m.mime_type = "text/html"
     THEN [base EXCEPT !.available_formats = << "html" >>, !.html = s]
     ELSE IF m.mime_type \in ImageMimes
     THEN [base EXCEPT !.available_formats = << "image" >>,
                       !.image = Some(WaylandImageData(m.context))]
     ELSE IF m.mime_type = "text/rtf"
     THEN [base EXCEPT !.available_formats = << "rtf" >>, !.rtf = s]
     ELSE IF IsSome(s)
     THEN [base EXCEPT !.available_formats = << "text" >>, !.text = s]
     ELSE base

wayland_context_to_clipboard_data(m) ==
  LET base == [available_formats |-> << >>, text |-> None, rtf |-> None,
               html |-> None, image |-> None, files |-> None]
      s == from_utf8(m.context)
  IN IF m.mime_type \in TextMimes
     THEN [base EXCEPT !.available_formats = << "text" >>, !.text = s]
     ELSE IF m.mime_type = "text/html"
     THEN [base EXCEPT !.available_formats = << "html" >>, !.html = s]
     ELSE IF m.mime_type \in ImageMimes
     THEN [base EXCEPT !.available_formats = << "image" >>,
                       !.image = Some(WaylandImageData(m.context))]
     ELSE IF IsSome(s)
     THEN [base EXCEPT !.available_formats = << "text" >>, !.text = s]
     ELSE base

(* ---------------------------------------------------------------------- *)
(* Specification of the snapshot producers                                 *)
(* ---------------------------------------------------------------------- *)
\* Each behaviour of this specification is one call on one input.
\* get_full_clipboard_data(): ClipboardContext::new() may fail; otherwise
\* the aggregation of the clipboard
GetFullClipboardData(c, newOk) ==
  /\ outcome = "none"
  /\ ctx' = Some(c) /\ msg' = None
  /\ IF newOk
     THEN /\ snap' = Some(get_clipboard_data(c))
          /\ fetched' = FetchCalls(c)
          /\ outcome' = "Ok"
     ELSE /\ snap' = None /\ fetched' = {} /\ outcome' = "GenericFailure"
  /\ UNCHANGED << lvars, ovars, env >>

\* the Wayland loop body's translation of one message
Translate(m) ==
  /\ outcome = "none"
  /\ msg' = Some(m) /\ ctx' = None
  /\ snap' = Some(wayland_context_to_clipboard_data(m))
  /\ fetched' = {}
  /\ outcome' = "Ok"
  /\ UNCHANGED << lvars, ovars, env >>

AggInit ==
  /\ env = [WAYLAND_DISPLAY |-> None, XDG_SESSION_TYPE |-> Some("x11")]
  /\ is_wayland = is_wayland_environment(env)
  /\ ListenerNew
  /\ AggIdle
  /\ OpsIdle

AggNext ==
  \/ \E c \in Contexts, newOk \in BOOLEAN : GetFullClipboardData(c, newOk)
  \/ \E m \in Messages : Translate(m)

AggSpec == AggInit /\ [][AggNext]_vars

(* ---------------------------------------------------------------------- *)
(* ClipboardManager queries and image setters                              *)
(* ---------------------------------------------------------------------- *)
\* The system clipboard: the formats it holds and, if any, its image bytes.
ClipImage == << 137, 80, 78 >>
Clipboards ==
  {[formats |-> F, image |-> IF "image" \in F THEN Some(ClipImage) ELSE None] :
     F \in {{}, {"text"}, {"image"}, {"text", "html", "image"}}}

\* format strings a caller may hand to has_format
FormatStrings ==
  {"text", "html", "rtf", "rich_text", "image", "files", "Text", "", "png"}

\* mutant: an unknown name is taken for text
ContentFormat_default_text(format) ==
  CASE format = "text" -> Some("text")
    [] format = "html" -> Some("html")
    [] format \in {"rtf", "rich_text"} -> Some("rtf")
    [] format = "image" -> Some("image")
    [] format = "files" -> Some("files")
    [] OTHER -> Some("text")

\* match format.as_str() { .. }: the ContentFormat of a name, if it has one
ContentFormat(format) ==
  CASE format = "text" -> Some("text")
    [] format = "html" -> Some("html")
    [] format \in {"rtf", "rich_text"} -> Some("rtf")
    [] format = "image" -> Some("image")
    [] format = "files" -> Some("files")
    [] OTHER -> None

\* The result of a one-shot operation on clipboard c: its error kind or Ok,
\* the value returned, the clipboard afterwards, the primitives it called.
OpResult(kind, value, c, called) ==
  [outcome |-> kind, ret |-> value, clip |-> c, consulted |-> called]

has_format(c, format) ==
  LET content_format == ContentFormat(format)
  IN IF IsSome(content_format)
     THEN OpResult("Ok", Some(content_format[1] \in c.formats), c, {"has"})
     ELSE OpResult("InvalidArg", None, c, {})

\* Characters of a base64 string: three of the alphabet (values 0, 16, 34),
\* the padding character and one outside the alphabet.
B64Chars == {"A", "Q", "i", "=", "!"}
B64Strings == SeqsUpTo(B64Chars, MaxB64Len)

\* the six-bit value of a character of the standard alphabet, else -1
B64Value(ch) ==
  CASE ch = "A" -> 0
    [] ch = "Q" -> 16
    [] ch = "i" -> 34
    [] OTHER -> -1

\* BASE64_STANDARD.decode: groups of four characters of the alphabet give
\* three bytes each; the last group may be padded with one or two "=", and
\* then the bits that do not make up a byte must be zero.
RECURSIVE base64_decode(_)
base64_decode(s) ==
  IF s = << >> THEN Some(<< >>)
  ELSE IF Len(s) < 4 THEN None
  ELSE LET v1 == B64Value(s[1])
           v2 == B64Value(s[2])
           v3 == B64Value(s[3])
           v4 == B64Value(s[4])
           rest == SubSeq(s, 5, Len(s))
           n == v1 * 262144 + v2 * 4096 + v3 * 64 + v4
       IN IF v1 >= 0 /\ v2 >= 0 /\ v3 >= 0 /\ v4 >= 0
          THEN LET r == base64_decode(rest)
               IN IF IsSome(r)
                  THEN Some(<< n \div 65536, (n \div 256) % 256, n % 256 >>
                              \o r[1])
                  ELSE None
          ELSE IF rest # << >> \/ v1 < 0 \/ v2 < 0 THEN None
          ELSE IF s[3] = "=" /\ s[4] = "=" /\ v2 % 16 = 0
          THEN Some(<< v1 * 4 + v2 \div 16 >>)
          ELSE IF v3 >= 0 /\ s[4] = "=" /\ v3 % 4 = 0
          THEN Some(<< v1 * 4 + v2 \div 16, (v2 % 16) * 16 + v3 \div 4 >>)
          ELSE None

\* Raw payloads are made of these bytes.
ImageBytes == {137, 0, 65}
RawPayloads == SeqsUpTo(ImageBytes, MaxLen)

\* RustImageData::from_bytes decodes the bytes of an encoded image. A
\* payload stands for an encoded image when it begins with the first byte
\* of the PNG signature.
from_bytes(b) == IF b # << >> /\ b[1] = 137 THEN Some(b) ELSE None

\* context.set_image(rust_image): the image replaces the clipboard's
\* content; a failing call leaves the clipboard as it was
set_image(c, img, setOk) ==
  IF setOk
  THEN OpResult("Ok", None, [formats |-> {"image"}, image |-> Some(img)],
                {"set_image"})
  ELSE OpResult("GenericFailure", None, c, {"set_image"})

set_image_raw(c, image_data, setOk) ==
  LET rust_image == from_bytes(image_data)
  IN IF IsSome(rust_image)
     THEN set_image(c, rust_image[1], setOk)
     ELSE OpResult("GenericFailure", None, c, {})

set_image_base64(c, base64_data, setOk) ==
  LET image_data == base64_decode(base64_data)
  IN IF IsSome(image_data)
     THEN set_image_raw(c, image_data[1], setOk)
     ELSE OpResult("InvalidArg", None, c, {})

\* the free function: it makes its own ClipboardContext first
set_clipboard_image(c, base64_data, newOk, setOk) ==
  IF newOk
  THEN set_image_base64(c, base64_data, setOk)
  ELSE OpResult("GenericFailure", None, c, {})

\* Each behaviour of OpsSpec is one call of one operation on one clipboard.
Call(name, a, r) ==
  /\ op = "none"
  /\ op' = name /\ arg' = Some(a)
  /\ outcome' = r.outcome /\ ret' = r.ret
  /\ clip' = r.clip /\ consulted' = r.consulted
  /\ UNCHANGED << lvars, env, ctx, msg, snap, fetched >>

HasFormat(format) == Call("has_format", format, has_format(clip, format))

SetImageBase64(base64_data, setOk) ==
  Call("set_image_base64", base64_data,
       set_image_base64(clip, base64_data, setOk))

SetImageRaw(image_data, setOk) ==
  Call("set_image_raw", image_data, set_image_raw(clip, image_data, setOk))

SetClipboardImage(base64_data, newOk, setOk) ==
  Call("set_clipboard_image", base64_data,
       set_clipboard_image(clip, base64_data, newOk, setOk))

OpsInit ==
  /\ env = [WAYLAND_DISPLAY |-> None, XDG_SESSION_TYPE |-> Some("x11")]
  /\ is_wayland = is_wayland_environment(env)
  /\ ListenerNew
  /\ AggIdle
  /\ clip \in Clipboards
  /\ op = "none" /\ arg = None /\ consulted = {} /\ ret = None

OpsNext ==
  \/ /\ op = "none"
     /\ \E format \in FormatStrings : HasFormat(format)
  \/ /\ op = "none"
     /\ \E s \in B64Strings, setOk \in BOOLEAN : SetImageBase64(s, setOk)
  \/ /\ op = "none"
     /\ \E b \in RawPayloads, setOk \in BOOLEAN : SetImageRaw(b, setOk)
  \/ /\ op = "none"
     /\ \E s \in B64Strings, newOk, setOk \in BOOLEAN :
          SetClipboardImage(s, newOk, setOk)

OpsSpec == OpsInit /\ [][OpsNext]_vars

\* The process environment changes while a Listener exists (any code of
\* the process may set or remove a variable).
SetEnv(e) ==
  /\ e # env
  /\ env' = e
  /\ UNCHANGED << lvars, avars, ovars >>

\* A Listener constructed in any environment, watched and stopped while the
\* environment changes; the clipboard itself stays as it is.
EnvInit ==
  /\ env \in Envs
  /\ is_wayland = is_wayland_environment(env)
  /\ ListenerNew
  /\ AggIdle
  /\ OpsIdle

EnvNext ==
  \/ \E e \in Envs : SetEnv(e)
  \/ \E tsfnOk \in BOOLEAN : Watch(tsfnOk)
  \/ WatchGenericRecv
  \/ Stop
  \/ \E t \in Tids : ThreadStep(t)

EnvSpec == EnvInit /\ [][EnvNext]_vars

\* The scheduler runs every backend thread that can take a step, and the
\* calling thread once its recv() can return. Nothing obliges the OS to
\* report a change or a stream to end.
FairSpec ==
  /\ Spec
  /\ \A t \in 1 .. MaxThreads : WF_vars(t \in Tids /\ ThreadStep(t))
  /\ WF_vars(WatchGenericRecv)

\* A Listener constructed in a Wayland session: is_wayland is true for
\* its lifetime, so watch() only ever starts Wayland backends.
WaylandInit == Init /\ is_wayland

WaylandNext ==
  \/ \E tsfnOk \in BOOLEAN : Watch(tsfnOk)
  \/ Stop
  \/ Drop
  \/ \E t \in Tids : WlStep(t)
  \/ ClipboardChange
  \/ \E t \in Tids : WlStreamEnd(t)

WaylandFairSpec ==
  /\ WaylandInit /\ [][WaylandNext]_vars
  /\ \A t \in 1 .. MaxThreads : WF_vars(t \in Tids /\ WlStep(t))

\* A Listener constructed outside a Wayland session: watch() only ever
\* starts Generic backends.
GenericInit == Init /\ ~is_wayland

GenericNext ==
  \/ \E tsfnOk \in BOOLEAN : Watch(tsfnOk)
  \/ WatchGenericRecv
  \/ Stop
  \/ Drop
  \/ \E t \in Tids : GenStep(t)
  \/ ClipboardChange

GenericFairSpec ==
  /\ GenericInit /\ [][GenericNext]_vars
  /\ \A t \in 1 .. MaxThreads : WF_vars(t \in Tids /\ GenStep(t))
  /\ WF_vars(WatchGenericRecv)

(* ---------------------------------------------------------------------- *)
(* Properties                                                              *)
(* ---------------------------------------------------------------------- *)
\* the calls made by all backends of the Listener, as <<thread, index>>
CallIds ==
  {p \in Tids \X (1 .. MaxChanges) : p[2] <= Len(threads[p[1]].calls)}
CallAt(p) == threads[p[1]].calls[p[2]]
Tags(d) == {d.available_formats[i] : i \in DOMAIN d.available_formats}

\* C1: after watch() is called on an active Listener and returns success,
\* is_watching() is true, every clipboard change is handed to a callback at
\* most once, and no backend hands over a change that occurred after it was
\* asked to stop.
C1_RearmLeavesOneBackend ==
  /\ (lastOp = "watch" /\ wasActive /\ lastResult = "Ok") => is_watching
  /\ \A p \in CallIds : ~CallAt(p).late
  /\ \A p, q \in CallIds : p # q => CallAt(p).ev # CallAt(q).ev

\* C2: the Listener is idle after new(), active after every watch() that
\* returned success, idle after every stop(), and owns at most one handle.
C2_Lifecycle ==
  /\ lastOp = "new" => ~is_watching
  /\ (lastOp = "watch" /\ lastResult = "Ok") => is_watching
  /\ lastOp = "stop" => ~is_watching
  /\ Len(listener_type) <= 1

\* the calling thread is in recv() and the Generic thread has returned from
\* a construction failure without sending the shutdown token
GenFailedInRecv ==
  /\ callerPc = "recv"
  /\ threads[Len(threads)].kind = "ClipboardRs"
  /\ threads[Len(threads)].pc = "failed"

\* C3 as stated: once construction has failed on the Generic thread, the
\* calling thread stays blocked in recv().
C3_BlocksForever == [][GenFailedInRecv => callerPc' = "recv"]_vars

\* C3 as amended: once construction has failed on the Generic thread, recv()
\* can return, and when it does watch() returns success with no handle
\* stored.
C3_ReturnsIdle ==
  /\ [](GenFailedInRecv => ENABLED WatchGenericRecv)
  /\ [][(GenFailedInRecv /\ callerPc' # "recv")
          => (callerPc' = "ready" /\ lastResult' = "Ok" /\ ~is_watching')]_vars

C3_Witness ==
  /\ ~is_wayland /\ callerPc = "ready"
  /\ lastOp = "watch" /\ lastResult = "Ok"
  /\ threads # << >> /\ threads[Len(threads)].pc = "failed"
  /\ ~is_watching

\* C4: a Wayland watch() returns success with the handle stored before the
\* thread has initialised its stream; a thread whose initialisation failed
\* has returned, makes no call on the bridge and never runs again; and the
\* Listener stops reporting is_watching() only through stop() (called
\* directly or by watch()) or by being dropped.
C4_WaylandWatchDoesNotWait ==
  /\ [][(is_wayland /\ Watch(TRUE))
          => /\ callerPc' = "ready" /\ lastResult' = "Ok" /\ is_watching'
             /\ listener_type'[1] = ListenerType("Wayland", Len(threads'))
             /\ threads'[Len(threads')].pc = "init"]_vars
  /\ [](\A t \in Tids : (threads[t].kind = "Wayland" /\ threads[t].pc = "failed")
                          => threads[t].calls = << >>)
  /\ [][\A t \in Tids : (threads[t].kind = "Wayland" /\ threads[t].pc = "failed")
                          => threads'[t] = threads[t]]_vars
  /\ [][(is_wayland /\ is_watching /\ ~is_watching')
          => (Stop \/ Drop \/ \E b \in BOOLEAN : Watch(b))]_vars

C4_Witness ==
  /\ is_wayland /\ is_watching
  /\ lastOp = "watch" /\ lastResult = "Ok"
  /\ threads[listener_type[1].tid].pc = "failed"

\* C5 as stated: at most one backend thread of the Listener is alive.
C5_OneLiveThread ==
  Cardinality({t \in Tids : Live(threads[t])}) <= 1

\* C5 as amended: at most one backend thread of the Listener is alive
\* without having been asked to stop.
C5_OneUnstoppedThread ==
  Cardinality({t \in Tids : Live(threads[t]) /\ threads[t].stop_rx = 0}) <= 1

C5_Witness ==
  /\ Len(threads) = 2
  /\ Live(threads[1]) /\ threads[1].stop_rx > 0
  /\ Live(threads[2]) /\ threads[2].stop_rx = 0
  /\ is_watching

\* C6: once the Listener has been dropped, every backend thread that is
\* still alive has a stop request waiting for it.
C6_DropStopsBackend ==
  dropped => \A t \in Tids : Live(threads[t]) => threads[t].stop_rx > 0

\* a Wayland thread with a stop signal pending
WlSignalled(t) ==
  /\ t \in Tids
  /\ threads[t].kind = "Wayland" /\ Live(threads[t])
  /\ threads[t].stop_rx > 0

\* C7: stop() on a live Wayland backend puts one signal on its channel; a
\* signalled thread for which the stream has an item exits (eventually), and
\* from the stream it takes no further message to deliver; no call is made
\* for a change that occurred after the signal; a thread past the stop check
\* leaves that position only by making its call.
C7_WaylandStop ==
  /\ \A t \in 1 .. MaxThreads :
       (WlSignalled(t) /\ threads[t].inbox # << >>)
         ~> (t \in Tids /\ threads[t].pc = "exited")
  /\ [][(Stop /\ is_watching /\ listener_type[1].kind = "Wayland"
           /\ Live(threads[listener_type[1].tid]))
          => threads'[listener_type[1].tid].stop_rx
               = threads[listener_type[1].tid].stop_rx + 1]_vars
  /\ [][\A t \in Tids : (WlSignalled(t) /\ threads[t].pc = "poll")
          => (threads'[t].pc \in {"poll", "exited"}
              /\ threads'[t].calls = threads[t].calls)]_vars
  /\ [](\A p \in CallIds : threads[p[1]].kind = "Wayland" => ~CallAt(p).late)
  /\ [][\A t \in Tids : (threads[t].kind = "Wayland" /\ threads[t].pc = "deliver")
          => \/ threads'[t].pc = "deliver"
             \/ /\ threads'[t].pc = "poll"
                /\ Len(threads'[t].calls) = Len(threads[t].calls) + 1]_vars

C7_Witness ==
  \E t \in Tids :
    /\ WlSignalled(t)
    /\ threads[t].pc = "deliver"
    /\ threads[t].inbox # << >>

\* C8: stop() on an idle Listener returns success, changes no backend
\* thread (so sends no signal) and leaves the Listener idle; after any
\* stop() the Listener is idle, so a second stop() is such a no-op.
C8_StopIdleNoOp ==
  /\ [][(Stop /\ ~is_watching)
          => /\ lastResult' = "Ok"
             /\ ~is_watching'
             /\ UNCHANGED << is_wayland, dropped, callerPc, threads,
                             changes >>]_vars
  /\ [][Stop => (~is_watching' /\ lastResult' = "Ok")]_vars

C8_Witness ==
  /\ lastOp = "stop" /\ ~wasActive /\ lastResult = "Ok"
  /\ ~is_watching
  /\ \E t \in Tids : Live(threads[t])

\* C9: in every snapshot produced, a populated field has its tag in
\* available_formats.
C9_FieldImpliesTag ==
  IsSome(snap) =>
    \A f \in FormatNames : IsSome(snap[1][f]) => f \in Tags(snap[1])

C9_Witness ==
  /\ IsSome(snap) /\ IsSome(ctx)
  /\ IsSome(snap[1].text) /\ "text" \in Tags(snap[1])
  /\ ~IsSome(snap[1].html) /\ "html" \in Tags(snap[1])

\* the value of field f of a snapshot of clipboard c
Expected(f) ==
  IF f = "image"
  THEN [width |-> Content(f).width, height |-> Content(f).height,
        size |-> Len(Content(f).png), data |-> Content(f).png]
  ELSE Content(f)

\* C10: the aggregation of a clipboard tags exactly the present formats,
\* populates a field, with the fetched content, exactly when its format is
\* present and its fetch (for the image, also the PNG encoding) succeeded,
\* calls no fetch primitive of an absent format and yields a snapshot.
C10_Aggregate ==
  (IsSome(ctx) /\ outcome = "Ok") =>
    /\ IsSome(snap)
    /\ Tags(snap[1]) = {f \in FormatNames : ctx[1].has[f]}
    /\ \A f \in FormatNames :
         /\ IsSome(snap[1][f])
              <=> /\ ctx[1].has[f] /\ ctx[1].get_ok[f]
                  /\ (f = "image" => ctx[1].png_ok)
         /\ IsSome(snap[1][f]) => snap[1][f] = Some(Expected(f))
    /\ fetched \subseteq {f \in FormatNames : ctx[1].has[f]}

C10_Witness ==
  /\ IsSome(ctx) /\ outcome = "Ok"
  /\ {f \in FormatNames : ctx[1].has[f]} = {"html"}
  /\ snap = Some([available_formats |-> << "html" >>, text |-> None,
                  rtf |-> None, html |-> Some("<b>hello</b>"),
                  image |-> None, files |-> None])

\* the place of a format name in the canonical order
CanonicalRank(f) ==
  CASE f = "text" -> 1
    [] f = "rtf" -> 2
    [] f = "html" -> 3
    [] f = "image" -> 4
    [] f = "files" -> 5
    [] OTHER -> 0

\* C11: the available_formats of every snapshot the aggregator produces
\* lists names of the canonical order text, rtf, html, image, files, each at
\* most once and in that order; text stands before html.
C11_CanonicalOrder ==
  (IsSome(ctx) /\ outcome = "Ok") =>
    LET af == snap[1].available_formats
    IN /\ \A i \in DOMAIN af : CanonicalRank(af[i]) > 0
       /\ \A i, j \in DOMAIN af :
            i < j => CanonicalRank(af[i]) < CanonicalRank(af[j])

C11_Witness ==
  /\ IsSome(ctx) /\ outcome = "Ok"
  /\ {f \in FormatNames : ctx[1].has[f]} = {"text", "html", "files"}
  /\ snap[1].available_formats = << "text", "html", "files" >>

\* C12: the translation of a Wayland message of a plain-text MIME type or of
\* text/html whose payload is not valid UTF-8 yields a snapshot with no tag
\* and no populated field: a tag is recorded only once the decode succeeded.
C12_TagOnlyAfterDecode ==
  (/\ IsSome(msg) /\ outcome = "Ok"
   /\ msg[1].mime_type \in TextMimes \cup {"text/html"}
   /\ ~IsUtf8(msg[1].context)) =>
    /\ snap[1].available_formats = << >>
    /\ snap[1].text = None
    /\ snap[1].html = None

\* C13: the translation of a Wayland message of an image MIME type with a
\* payload of N bytes yields a snapshot whose only tag is "image", whose
\* image has width 0, height 0, size N and the payload bytes unchanged as its
\* data, and whose text and html are absent.
C13_WaylandImage ==
  (/\ IsSome(msg) /\ outcome = "Ok"
   /\ msg[1].mime_type \in {"image/png", "image/jpeg", "image/gif",
                            "image/bmp"}) =>
    /\ snap[1].available_formats = << "image" >>
    /\ IsSome(snap[1].image)
    /\ snap[1].image[1].width = 0
    /\ snap[1].image[1].height = 0
    /\ snap[1].image[1].size = Len(msg[1].context)
    /\ snap[1].image[1].data = msg[1].context
    /\ snap[1].text = None
    /\ snap[1].html = None

C13_Witness ==
  /\ IsSome(msg) /\ outcome = "Ok"
  /\ msg[1].mime_type = "image/jpeg"
  /\ msg[1].context = << 255, 65 >>
  /\ snap[1].image = Some([width |-> 0, height |-> 0, size |-> 2,
                           data |-> << 255, 65 >>])

\* C14: whatever the MIME type of the message, the snapshot the Wayland
\* translation yields has rtf and files absent and carries neither the tag
\* "rtf" nor the tag "files".
C14_WaylandNoRtfNoFiles ==
  (IsSome(msg) /\ outcome = "Ok") =>
    /\ snap[1].rtf = None
    /\ snap[1].files = None
    /\ Tags(snap[1]) \cap {"rtf", "files"} = {}

C14_Witness ==
  /\ IsSome(msg) /\ outcome = "Ok"
  /\ msg[1].mime_type = "text/rtf"
  /\ msg[1].context = << 65, 65 >>
  /\ snap[1].available_formats = << "text" >>
  /\ snap[1].text = Some(<< 65, 65 >>)
  /\ snap[1].rtf = None

\* C15: the environment detector answers true exactly when WAYLAND_DISPLAY
\* is set and not empty or XDG_SESSION_TYPE is exactly "wayland"; with
\* WAYLAND_DISPLAY set to the empty string and a session type other than
\* "wayland" it answers false.
C15_DetectsWayland ==
  is_wayland_environment(env)
    <=> \/ (IsSome(env.WAYLAND_DISPLAY) /\ env.WAYLAND_DISPLAY # Some(""))
        \/ env.XDG_SESSION_TYPE = Some("wayland")

\* the backend kind that answers to a listener type
KindOf(type) == IF type = "wayland" THEN "Wayland" ELSE "ClipboardRs"

\* C20: get_listener_type() never changes its answer, whatever watch() and
\* stop() calls are made and however the process environment changes after
\* new(), and every backend a watch() starts is of the kind it names.
C20_KindFixed ==
  /\ [][get_listener_type' = get_listener_type]_vars
  /\ [](\A t \in Tids : threads[t].kind = KindOf(get_listener_type))

C20_Witness ==
  /\ is_wayland_environment(env) # is_wayland
  /\ Len(threads) = 2
  /\ is_watching
  /\ lastOp = "watch" /\ wasActive

\* C16: the calls one backend thread makes on its bridge are in the order
\* in which the OS reported the clipboard changes they are for.
C16_CallsInReportOrder ==
  \A t \in Tids :
    \A i, j \in DOMAIN threads[t].calls :
      i < j => threads[t].calls[i].ev < threads[t].calls[j].ev

C16_Witness ==
  \E t \in Tids :
    /\ Len(threads[t].calls) = 2
    /\ threads[t].calls[1].ev = 1
    /\ threads[t].calls[2].ev = 2

\* thread t has just made a call that its bridge rejected
RejectedCallBy(t) ==
  /\ t \in Tids
  /\ Len(threads'[t].calls) = Len(threads[t].calls) + 1
  /\ ~threads'[t].calls[Len(threads'[t].calls)].ok

\* C17: a call the bridge rejects is dropped silently. The thread that made
\* it is back at the head of its loop, ready for the next change, and holds
\* the dropped snapshot no more; no Listener operation reports an error for
\* it; and no thread makes a call for the same change twice.
C17_FailureDropped ==
  /\ [][\A t \in 1 .. MaxThreads :
          RejectedCallBy(t) =>
            /\ threads'[t].pc
                 = (IF threads[t].kind = "Wayland" THEN "poll" ELSE "loop")
            /\ threads'[t].cur = None
            /\ \A i \in DOMAIN threads'[t].inbox :
                 threads'[t].inbox[i].ev
                   # threads'[t].calls[Len(threads'[t].calls)].ev
            /\ UNCHANGED << listener_type, callerPc, lastOp, lastResult,
                            dropped >>]_vars
  /\ [](\A t \in Tids :
          \A i, j \in DOMAIN threads[t].calls :
            i # j => threads[t].calls[i].ev # threads[t].calls[j].ev)

\* a thread whose first call was rejected has delivered the next change
C17_Witness ==
  \E t \in Tids :
    /\ Len(threads[t].calls) = 2
    /\ ~threads[t].calls[1].ok
    /\ threads[t].calls[2].ok
    /\ threads[t].calls[2].ev > threads[t].calls[1].ev

\* C18: has_format called with a string that is none of the format names it
\* knows fails with the invalid-argument kind, returns no value, calls
\* nothing on the clipboard context and leaves the clipboard as it was.
C18_UnsupportedFormat ==
  [][(/\ op = "none" /\ op' = "has_format"
      /\ arg'[1] \notin {"text", "html", "rtf", "rich_text", "image",
                         "files"}) =>
       /\ outcome' = "InvalidArg"
       /\ ret' = None
       /\ consulted' = {}
       /\ clip' = clip]_vars

C18_Witness ==
  /\ op = "has_format" /\ arg = Some("Text")
  /\ outcome = "InvalidArg"
  /\ "text" \in clip.formats

\* the payload a handed to image setter o is not an encoded image
Malformed(o, a) ==
  IF o = "set_image_raw"
  THEN from_bytes(a) = None
  ELSE \/ base64_decode(a) = None
       \/ from_bytes(base64_decode(a)[1]) = None

\* C19: an image setter (set_image_base64, set_clipboard_image,
\* set_image_raw) handed a malformed payload, be it invalid base64 or bytes
\* that are no image, fails with the invalid-argument kind and leaves the
\* clipboard as it was.
C19_MalformedImage ==
  [][(/\ op = "none"
      /\ op' \in {"set_image_base64", "set_clipboard_image", "set_image_raw"}
      /\ Malformed(op', arg'[1])) =>
       /\ outcome' = "InvalidArg"
       /\ clip' = clip]_vars

\* a Generic thread whose shutdown token has been invoked
GenSignalled(t) ==
  /\ t \in Tids
  /\ threads[t].kind = "ClipboardRs" /\ Live(threads[t])
  /\ threads[t].stop_rx > 0

\* C21: a Generic thread whose token has been invoked exits (eventually),
\* also when the invocation came before it entered start_watch(); stop()
\* returns at once and moves no thread; a thread once signalled never
\* watches again and a thread that has returned stays as it is; a handle
\* stored by a later watch() is that of the thread spawned last, and that
\* thread started afresh.
C21_GenericStop ==
  /\ \A t \in 1 .. MaxThreads :
       GenSignalled(t) ~> (t \in Tids /\ threads[t].pc = "exited")
  /\ [][Stop => /\ callerPc' = "ready" /\ lastResult' = "Ok"
                /\ \A t \in Tids : threads'[t].pc = threads[t].pc]_vars
  /\ [][\A t \in Tids :
          /\ GenSignalled(t) =>
               /\ ~Subscribed(threads'[t])
               /\ threads'[t].stop_rx > 0 \/ ~Live(threads'[t])
          /\ ~Live(threads[t]) => threads'[t] = threads[t]]_vars
  /\ [][Len(threads') > Len(threads) =>
          /\ Len(threads') = Len(threads) + 1
          /\ threads'[Len(threads')] = NewThread("ClipboardRs")]_vars
  /\ [](is_watching => listener_type[1].tid = Len(threads))

\* stop() has returned right after watch(): the thread has sent its token
\* and has not yet entered start_watch()
C21_Witness ==
  /\ lastOp = "stop" /\ lastResult = "Ok" /\ wasActive
  /\ callerPc = "ready"
  /\ GenSignalled(1) /\ threads[1].pc = "start"

\* C22: stop() always returns Ok and leaves the Listener idle; when the
\* thread of the stored handle has already returned, the signal goes
\* nowhere, no thread changes, and the handle is cleared all the same.
C22_StopNeverFails ==
  [][Stop =>
       /\ lastResult' = "Ok"
       /\ ~is_watching'
       /\ callerPc' = "ready"
       /\ (is_watching /\ ~Live(threads[listener_type[1].tid]))
            => threads' = threads]_vars

\* stop() has returned on a Listener whose Wayland thread had failed to
\* open its stream
C22_Witness ==
  /\ lastOp = "stop" /\ lastResult = "Ok" /\ wasActive
  /\ ~is_watching
  /\ Len(threads) = 1
  /\ threads[1].kind = "Wayland" /\ threads[1].pc = "failed"

\* C23: a watch() that fails to build its threadsafe function returns its
\* error with the Listener idle: a backend that was active when it was
\* called has been asked to stop and its handle is cleared.
C23_FailedWatchLeavesIdle ==
  /\ []((lastOp = "watch" /\ lastResult = "Err") => ~is_watching)
  /\ [][(lastOp' = "watch" /\ lastResult' = "Err" /\ is_watching) =>
          /\ ~is_watching'
          /\ threads' = SendStop(threads, listener_type[1])]_vars

\* watch() failed on a Listener that was active: its backend was signalled
C23_Witness ==
  /\ lastOp = "watch" /\ lastResult = "Err" /\ wasActive
  /\ ~is_watching
  /\ Len(threads) = 1 /\ Live(threads[1]) /\ threads[1].stop_rx = 1

\* a Wayland thread that was asked to stop before it took its first item
\* from the stream
StoppedBeforeFirstItem(t) ==
  /\ WlSignalled(t)
  /\ threads[t].pc \in {"init", "poll"}
  /\ threads[t].calls = << >>

\* C24: a Wayland thread asked to stop before it has taken its first stream
\* item never makes a call: it stays as it is until the stream yields an
\* item, returns at the stop check that precedes the handling of that item,
\* and a thread that has returned makes no call.
C24_StopBeforeFirstItem ==
  /\ [][\A t \in Tids :
          StoppedBeforeFirstItem(t) =>
            /\ threads'[t].calls = << >>
            /\ \/ /\ threads'[t].pc \in {"init", "poll"}
                  /\ threads'[t].stop_rx > 0
                  /\ Len(threads'[t].inbox) >= Len(threads[t].inbox)
               \/ ~Live(threads'[t])]_vars
  /\ [][\A t \in Tids :
          ~Live(threads[t]) =>
            /\ ~Live(threads'[t])
            /\ threads'[t].calls = threads[t].calls]_vars

\* stop() right after watch(): the thread is still opening its stream
C24_Witness ==
  /\ lastOp = "stop" /\ wasActive
  /\ StoppedBeforeFirstItem(1) /\ threads[1].pc = "init"

\* C25: in the Wayland loop an item that is an error or carries no message
\* leads to no call and leaves the thread polling; the thread leaves its
\* loop only at a stop check with a signal pending or when the stream ends,
\* and a Listener dropped without stop() gives it no signal.
C25_WaylandLoopGoesOn ==
  /\ [][\A t \in Tids : \A kind \in {"none", "err"} :
          (WlPoll(t, kind) /\ threads[t].stop_rx = 0) =>
            /\ threads'[t].pc = "poll"
            /\ threads'[t].cur = None
            /\ threads'[t].calls = threads[t].calls]_vars
  /\ [][\A t \in Tids :
          (/\ threads[t].kind = "Wayland"
           /\ threads[t].pc \in {"poll", "deliver"}
           /\ ~Live(threads'[t])) =>
            \/ threads[t].pc = "poll" /\ threads[t].stop_rx > 0
            \/ WlStreamEnd(t)]_vars
  /\ [][(Drop /\ is_watching /\ listener_type[1].kind = "Wayland") =>
          threads' = threads]_vars

\* The only change the OS reported went by without a call, and the thread,
\* whose Listener has been dropped, is still polling.
C25_Witness ==
  /\ dropped
  /\ Len(threads) = 1 /\ changes = 1
  /\ threads[1].kind = "Wayland" /\ threads[1].pc = "poll"
  /\ threads[1].inbox = << >> /\ threads[1].calls = << >>
  /\ threads[1].stop_rx = 0

====
